---- MODULE Spec2Model ----
(***************************************************************************)
(* Budget entity of the personal finance calculator                        *)
(* (src/modules/budget.py, src/config/settings.py).                        *)
(*                                                                         *)
(* Amounts are exact fixed-point numbers counted in mills (1/1000 of a     *)
(* currency unit), so that round(x, DECIMAL_PRECISION) is a real           *)
(* operation: it maps a number of mills to the nearest multiple of Cent,   *)
(* ties to the even cent (Python's round).  A quotient such as             *)
(* old_amount * new_income / old_income is rounded from the exact          *)
(* rational.  A Python dict is a sequence of [name, amount] records in     *)
(* insertion order.  Dates are day numbers; `today` is the clock read by   *)
(* get_current_date() and datetime.now().  The transaction history is a    *)
(* list of transaction records (src/modules/calculator.py); percentages    *)
(* and scores are counted in tenths, the precision they are rounded to.    *)
(***************************************************************************)
EXTENDS Integers, Sequences, FiniteSets, TLC

VARIABLES created, monthly_income, currency, categories,
          created_date, last_updated, today, op,
          transactions, result

vars == <<created, monthly_income, currency, categories,
          created_date, last_updated, today, op,
          transactions, result>>

budgetVars == <<monthly_income, currency, categories, created_date, last_updated>>

\* the transaction history, and the value the last call returned when that
\* call was one of the analysis functions (NoResult after any other call)
trackVars == <<transactions, result>>

(***************************************************************************)
(* Bounds of the model                                                     *)
(***************************************************************************)
MaxIncome == 3
MaxAmount == 2
MaxDay == 2
MaxTx == 2

(***************************************************************************)
(* Program constants (config/settings.py)                                  *)
(***************************************************************************)
Cent == 10
Unit == 100 * Cent
DEFAULT_CURRENCY == "USD"
MIN_TRANSACTION_AMOUNT == Cent
MAX_TRANSACTION_AMOUNT == 1000000 * Unit

RECOMMENDED_BUDGET_PERCENTAGES ==
  << [name |-> "Housing", pct |-> 25],
     [name |-> "Food & Dining", pct |-> 12],
     [name |-> "Transportation", pct |-> 10],
     [name |-> "Healthcare", pct |-> 5],
     [name |-> "Entertainment", pct |-> 10],
     [name |-> "Shopping", pct |-> 10],
     [name |-> "Utilities", pct |-> 8],
     [name |-> "Insurance", pct |-> 5],
     [name |-> "Savings", pct |-> 20],
     [name |-> "Other", pct |-> 5] >>

(***************************************************************************)
(* Inputs                                                                  *)
(***************************************************************************)
InvalidNumbers == {0, MAX_TRANSACTION_AMOUNT + Cent}
\* Incomes are odd numbers of cents: a quotient amount * new / old is then
\* never an exact half cent, the one case in which binary floating point,
\* not the decimal value, decides the direction of round().
Incomes == {(2 * k - 1) * Cent : k \in 1..MaxIncome} \cup InvalidNumbers
Amounts == {k * Cent : k \in 1..MaxAmount} \cup InvalidNumbers
TemplateIncomes == {Unit} \cup InvalidNumbers
BlankNames == {"", " "}
Names == {"Housing", "Pets"} \cup BlankNames
MoreNames == Names \cup {"Gifts"}
Currencies == {"USD", "EUR"}
Templates == {"50/30/20", "zero_based", "custom"}

\* Inputs of the analysis of spending.  The amounts are chosen so that a
\* category can be over its allocation by exactly 10% (0.70 against 0.77),
\* under it by exactly 30% (1.50 against 1.05), and well beyond either.
TrackIncomes == {221 * Cent}
ShrunkIncomes == {Cent}
BudgetAmounts == {70 * Cent, 150 * Cent}
BudgetNames == {"Housing", "_summary"}
TrackPeriods == {"month", "all"}
Periods == {"week", "month", "quarter", "year", "all"}

(***************************************************************************)
(* Rounding                                                                *)
(***************************************************************************)
\* n/d (n >= 0, d > 0) rounded to the nearest integer, ties to even
RoundHalfEven(n, d) ==
  LET q == n \div d
      r == n % d
  IN  IF 2 * r < d THEN q
      ELSE IF 2 * r > d THEN q + 1
      ELSE IF q % 2 = 0 THEN q ELSE q + 1

\* round(n/d, DECIMAL_PRECISION) for n/d in mills: a multiple of Cent
Round2Ratio(n, d) == Cent * RoundHalfEven(n, Cent * d)

\* n/d is exactly half way between two multiples of Cent
IsTie(n, d) == 2 * (n % (Cent * d)) = Cent * d

\* round(x, DECIMAL_PRECISION)
Round2(x) == Round2Ratio(x, 1)

Abs(x) == IF x < 0 THEN 0 - x ELSE x

\* round() of the float that stands for n/d (d > 0), counted in units of the
\* last digit kept: the nearest integer; when n/d is exactly half way the
\* float lies just above or just below it, so either neighbour can result
RoundSet(n, d) ==
  LET q == n \div d
      r == n % d
  IN  IF 2 * r < d THEN {q}
      ELSE IF 2 * r > d THEN {q + 1}
      ELSE {q, q + 1}

\* round(n/d, DECIMAL_PRECISION) for n/d in mills
Round2Set(n, d) == {Cent * q : q \in RoundSet(n, Cent * d)}

\* x > y * (tenths/10) as floats compare it.  The factors 0.1 and 0.3 have
\* no exact binary form, so when x is exactly that fraction of y the product
\* lies just below or just above x and the test can go either way
\* (0.07 > 0.7 * 0.1 is True, 0.01 > 0.1 * 0.1 is False).
ExceedsTenths(x, y, tenths) ==
  IF y > 0 /\ 10 * x = tenths * y THEN BOOLEAN ELSE {10 * x > tenths * y}

(***************************************************************************)
(* dict helpers                                                            *)
(***************************************************************************)
KeysOf(cats) == {cats[i].name : i \in 1..Len(cats)}

Has(cats, k) == k \in KeysOf(cats)

IndexOf(cats, k) == CHOOSE i \in 1..Len(cats) : cats[i].name = k

\* cats.get(k, default)
Get(cats, k, default) == IF Has(cats, k) THEN cats[IndexOf(cats, k)].amount ELSE default

\* cats[k] = v
Put(cats, k, v) ==
  IF Has(cats, k)
  THEN [cats EXCEPT ![IndexOf(cats, k)].amount = v]
  ELSE Append(cats, [name |-> k, amount |-> v])

\* mutant: deletes the first key, not the named one
DelFirst(cats, k) == Tail(cats)

\* del cats[k]
Del(cats, k) ==
  LET i == IndexOf(cats, k)
  IN  SubSeq(cats, 1, i - 1) \o SubSeq(cats, i + 1, Len(cats))

RECURSIVE SumValues(_)
SumValues(cats) ==
  IF cats = <<>> THEN 0 ELSE cats[1].amount + SumValues(Tail(cats))

(***************************************************************************)
(* Validation                                                              *)
(***************************************************************************)
\* data_handler.validate_positive_number: <<>> is None, <<x>> the number
validate_positive_number(x) ==
  IF x >= MIN_TRANSACTION_AMOUNT /\ x <= MAX_TRANSACTION_AMOUNT THEN <<x>> ELSE <<>>

\* mutant: the name is not stripped before the emptiness test
ValidNameNoStrip(category) == category # ""

\* not (not category or not category.strip())
ValidName(category) == category # "" /\ category # " "

(***************************************************************************)
(* Budget methods                                                          *)
(***************************************************************************)
get_current_date == today

get_total_budget(cats) == Round2(SumValues(cats))

\* Budget.get_remaining_budget of a budget with the given income and
\* categories
get_remaining_budget(income, cats) == Round2(income - get_total_budget(cats))

\* Budget.get_budget_utilization, in tenths of a percent: the values
\* round(..., 1) can give
get_budget_utilization(income, cats) ==
  IF income = 0 THEN {0} ELSE RoundSet(1000 * get_total_budget(cats), income)

\* mutant: no rollback, the rejected amount stays
RollbackMissing(tmp, category, old_amount) == tmp

\* the rollback of add_category
Rollback(tmp, category, old_amount) ==
  IF old_amount > 0 THEN Put(tmp, category, old_amount) ELSE Del(tmp, category)

\* Budget.add_category on a budget with the given categories and income
AddCategory(cats, income, category, amount) ==
  IF ~ValidName(category) THEN [ok |-> FALSE, cats |-> cats]
  ELSE LET validated == validate_positive_number(amount)
       IN  IF validated = <<>> THEN [ok |-> FALSE, cats |-> cats]
           ELSE LET old_amount == Get(cats, category, 0)
                    tmp == Put(cats, category, validated[1])
                IN  IF get_total_budget(tmp) > income
                    THEN [ok |-> FALSE, cats |-> Rollback(tmp, category, old_amount)]
                    ELSE [ok |-> TRUE, cats |-> tmp]

\* no analysis has returned a value yet
NoResult == [call |-> "none", period |-> "", out |-> <<>>]

Op(name, category, amount, ret, raised) ==
  [name |-> name, category |-> category, amount |-> amount,
   ret |-> ret, raised |-> raised]

Init ==
  /\ created = FALSE
  /\ monthly_income = 0
  /\ currency = DEFAULT_CURRENCY
  /\ categories = <<>>
  /\ created_date = 1
  /\ last_updated = 1
  /\ today = 1
  /\ op = Op("init", "", 0, TRUE, FALSE)
  /\ transactions = <<>>
  /\ result = NoResult

\* Budget.__init__
BudgetInit(income, cur) ==
  /\ created' = TRUE
  /\ monthly_income' = Round2(income)
  /\ currency' = cur
  /\ created_date' = get_current_date
  /\ last_updated' = get_current_date

\* mutant: an invalid income is answered by a failure value, not an exception
create_budget_returns_none(income, cur) ==
  /\ ~created
  /\ LET validated_income == validate_positive_number(income)
     IN  IF validated_income = <<>>
         THEN /\ op' = Op("create_budget", "", income, FALSE, FALSE)
              /\ UNCHANGED <<created, budgetVars, today>>
         ELSE /\ BudgetInit(validated_income[1], cur)
              /\ categories' = <<>>
              /\ op' = Op("create_budget", "", income, TRUE, FALSE)
              /\ UNCHANGED today
  /\ UNCHANGED transactions
  /\ result' = NoResult

create_budget(income, cur) ==
  /\ ~created
  /\ LET validated_income == validate_positive_number(income)
     IN  IF validated_income = <<>>
         THEN /\ op' = Op("create_budget", "", income, FALSE, TRUE)
              /\ UNCHANGED <<created, budgetVars, today>>
         ELSE /\ BudgetInit(validated_income[1], cur)
              /\ categories' = <<>>
              /\ op' = Op("create_budget", "", income, TRUE, FALSE)
              /\ UNCHANGED today
  /\ UNCHANGED transactions
  /\ result' = NoResult

add_category(category, amount) ==
  /\ created
  /\ LET r == AddCategory(categories, monthly_income, category, amount)
     IN  /\ categories' = r.cats
         /\ last_updated' = IF r.ok THEN get_current_date ELSE last_updated
         /\ op' = Op("add_category", category, amount, r.ok, FALSE)
  /\ UNCHANGED <<created, monthly_income, currency, created_date, today>>
  /\ UNCHANGED transactions
  /\ result' = NoResult

remove_category(category) ==
  /\ created
  /\ IF Has(categories, category)
     THEN /\ categories' = Del(categories, category)
          /\ last_updated' = get_current_date
          /\ op' = Op("remove_category", category, 0, TRUE, FALSE)
     ELSE /\ op' = Op("remove_category", category, 0, FALSE, FALSE)
          /\ UNCHANGED <<categories, last_updated>>
  /\ UNCHANGED <<created, monthly_income, currency, created_date, today>>
  /\ UNCHANGED transactions
  /\ result' = NoResult

\* mutant: the scaled amount is truncated to the cent, not rounded
ScaleAmountTruncated(old_amount, validated_income, old_income) ==
  {Cent * ((old_amount * validated_income) \div (Cent * old_income))}

\* round(old_amount * (validated_income / monthly_income), DECIMAL_PRECISION):
\* the nearest cent; on an exact half cent the float product lies just above
\* or just below it, so either neighbour can be the result
ScaleAmount(old_amount, validated_income, old_income) ==
  LET n == old_amount * validated_income
      down == Cent * (n \div (Cent * old_income))
  IN  IF IsTie(n, old_income) THEN {down, down + Cent}
      ELSE {Round2Ratio(n, old_income)}

\* the loop of update_budget_income over budget.categories
RECURSIVE ScaleCategories(_, _, _)
ScaleCategories(cats, validated_income, old_income) ==
  IF cats = <<>> THEN {<<>>}
  ELSE {<<[name |-> cats[1].name, amount |-> a]>> \o rest :
          a \in ScaleAmount(cats[1].amount, validated_income, old_income),
          rest \in ScaleCategories(Tail(cats), validated_income, old_income)}

\* mutant: the zero-income branch starts from an empty category mapping
update_budget_income_resets(new_income) ==
  /\ created
  /\ LET validated_income == validate_positive_number(new_income)
     IN  IF validated_income = <<>>
         THEN /\ op' = Op("update_budget_income", "", new_income, FALSE, FALSE)
              /\ UNCHANGED <<monthly_income, categories, last_updated>>
         ELSE IF monthly_income = 0
         THEN /\ monthly_income' = validated_income[1]
              /\ categories' = <<>>
              /\ op' = Op("update_budget_income", "", new_income, TRUE, FALSE)
              /\ UNCHANGED last_updated
         ELSE /\ categories' \in ScaleCategories(categories, validated_income[1], monthly_income)
              /\ monthly_income' = validated_income[1]
              /\ last_updated' = get_current_date
              /\ op' = Op("update_budget_income", "", new_income, TRUE, FALSE)
  /\ UNCHANGED <<created, currency, created_date, today>>
  /\ UNCHANGED transactions
  /\ result' = NoResult

\* mutant: the timestamp is written before the income is validated
update_budget_income_stamps(new_income) ==
  /\ created
  /\ last_updated' = get_current_date
  /\ LET validated_income == validate_positive_number(new_income)
     IN  IF validated_income = <<>>
         THEN /\ op' = Op("update_budget_income", "", new_income, FALSE, FALSE)
              /\ UNCHANGED <<monthly_income, categories>>
         ELSE IF monthly_income = 0
         THEN /\ monthly_income' = validated_income[1]
              /\ op' = Op("update_budget_income", "", new_income, TRUE, FALSE)
              /\ UNCHANGED categories
         ELSE /\ categories' \in ScaleCategories(categories, validated_income[1], monthly_income)
              /\ monthly_income' = validated_income[1]
              /\ op' = Op("update_budget_income", "", new_income, TRUE, FALSE)
  /\ UNCHANGED <<created, currency, created_date, today>>
  /\ UNCHANGED transactions
  /\ result' = NoResult

update_budget_income(new_income) ==
  /\ created
  /\ LET validated_income == validate_positive_number(new_income)
     IN  IF validated_income = <<>>
         THEN /\ op' = Op("update_budget_income", "", new_income, FALSE, FALSE)
              /\ UNCHANGED <<monthly_income, categories, last_updated>>
         ELSE IF monthly_income = 0
         THEN /\ monthly_income' = validated_income[1]
              /\ op' = Op("update_budget_income", "", new_income, TRUE, FALSE)
              /\ UNCHANGED <<categories, last_updated>>
         ELSE /\ categories' \in ScaleCategories(categories, validated_income[1], monthly_income)
              /\ monthly_income' = validated_income[1]
              /\ last_updated' = get_current_date
              /\ op' = Op("update_budget_income", "", new_income, TRUE, FALSE)
  /\ UNCHANGED <<created, currency, created_date, today>>
  /\ UNCHANGED transactions
  /\ result' = NoResult

\* the add_category calls of the "50/30/20" template, in order
Template503020(income) ==
  LET needs_amount == (income * 5) \div 10
      wants_amount == (income * 3) \div 10
      savings_amount == (income * 2) \div 10
  IN  << [name |-> "Housing", amount |-> (needs_amount * 50) \div 100],
         [name |-> "Food & Dining", amount |-> (needs_amount * 24) \div 100],
         [name |-> "Transportation", amount |-> (needs_amount * 20) \div 100],
         [name |-> "Utilities", amount |-> (needs_amount * 16) \div 100],
         [name |-> "Healthcare", amount |-> (needs_amount * 10) \div 100],
         [name |-> "Entertainment", amount |-> (wants_amount * 33) \div 100],
         [name |-> "Shopping", amount |-> (wants_amount * 33) \div 100],
         [name |-> "Other", amount |-> (wants_amount * 33) \div 100],
         [name |-> "Savings", amount |-> savings_amount] >>

\* the add_category calls of the "zero_based" template, in order
TemplateZeroBased(income) ==
  [i \in 1..Len(RECOMMENDED_BUDGET_PERCENTAGES) |->
     [name |-> RECOMMENDED_BUDGET_PERCENTAGES[i].name,
      amount |-> (income * RECOMMENDED_BUDGET_PERCENTAGES[i].pct) \div 100]]

TemplateCalls(income, template) ==
  IF template = "50/30/20" THEN Template503020(income)
  ELSE IF template = "zero_based" THEN TemplateZeroBased(income)
  ELSE <<>>

\* budget.add_category applied call by call; a rejected call is skipped.
\* Each intermediate dict is bound as a value before the next call uses it.
RECURSIVE ApplyCalls(_, _, _)
ApplyCalls(cats, income, calls) ==
  IF calls = <<>> THEN cats
  ELSE LET after == {AddCategory(cats, income, calls[1].name, calls[1].amount).cats}
       IN  CHOOSE r \in {ApplyCalls(c, income, Tail(calls)) : c \in after} : TRUE

\* the call is recorded with the name of its template
create_budget_from_template(income, template, cur) ==
  /\ ~created
  /\ LET validated_income == validate_positive_number(income)
     IN  IF validated_income = <<>>
         THEN /\ op' = Op("create_budget_from_template", template, income, FALSE, TRUE)
              /\ UNCHANGED <<created, budgetVars, today>>
         ELSE /\ BudgetInit(validated_income[1], cur)
              /\ categories' = ApplyCalls(<<>>, Round2(validated_income[1]),
                                          TemplateCalls(income, template))
              /\ op' = Op("create_budget_from_template", template, income, TRUE, FALSE)
              /\ UNCHANGED today
  /\ UNCHANGED transactions
  /\ result' = NoResult

\* a day passes; days are counted from the day the budget object is made
Tick ==
  /\ created
  /\ today < MaxDay
  /\ today' = today + 1
  /\ op' = Op("tick", "", 0, TRUE, FALSE)
  /\ UNCHANGED <<created, budgetVars>>
  /\ UNCHANGED transactions
  /\ result' = NoResult

(***************************************************************************)
(* Serialization                                                           *)
(***************************************************************************)
\* Budget.to_dict
to_dict(b) ==
  [monthly_income |-> b.monthly_income,
   currency |-> b.currency,
   categories |-> b.categories,
   created_date |-> b.created_date,
   last_updated |-> b.last_updated]

\* data.get(k, default)
DictGet(data, k, default) == IF k \in DOMAIN data THEN data[k] ELSE default

\* mutant: the stored last_updated is ignored, the load stamps the budget
from_dict_restamps(data, now) ==
  [monthly_income |-> Round2(data["monthly_income"]),
   currency |-> DictGet(data, "currency", DEFAULT_CURRENCY),
   categories |-> DictGet(data, "categories", <<>>),
   created_date |-> DictGet(data, "created_date", now),
   last_updated |-> now]

\* Budget.from_dict, called on day `now`
from_dict(data, now) ==
  [monthly_income |-> Round2(data["monthly_income"]),
   currency |-> DictGet(data, "currency", DEFAULT_CURRENCY),
   categories |-> DictGet(data, "categories", <<>>),
   created_date |-> DictGet(data, "created_date", now),
   last_updated |-> DictGet(data, "last_updated", now)]

\* the budget object as one record
Budget ==
  [monthly_income |-> monthly_income,
   currency |-> currency,
   categories |-> categories,
   created_date |-> created_date,
   last_updated |-> last_updated]

\* persisted records that load_budget() may return; they were saved on
\* LoadedDay, the day before the reload
LoadedDay == today - 1
LoadIncomes == {0, Cent \div 2 - 1, Cent + Cent \div 2 + 1, 2 * Cent}
LoadCategories ==
  { <<>>,
    << [name |-> "Housing", amount |-> Cent] >>,
    << [name |-> "Pets", amount |-> 2 * Cent], [name |-> "Housing", amount |-> Cent] >> }
OptionalKeys == {"currency", "categories", "created_date", "last_updated"}
LoadData ==
  { [k \in {"monthly_income"} \cup present |->
       IF k = "monthly_income" THEN income
       ELSE IF k = "currency" THEN "EUR"
       ELSE IF k = "categories" THEN cats
       ELSE LoadedDay] :
    income \in LoadIncomes, cats \in LoadCategories,
    present \in {OptionalKeys, OptionalKeys \ {"currency"},
                 OptionalKeys \ {"created_date", "last_updated"}, {}} }

\* load_budget_from_file: Budget.from_dict on the persisted record
load_budget_from_file(data) ==
  /\ ~created
  /\ LET b == from_dict(data, get_current_date)
     IN  /\ created' = TRUE
         /\ monthly_income' = b.monthly_income
         /\ currency' = b.currency
         /\ categories' = b.categories
         /\ created_date' = b.created_date
         /\ last_updated' = b.last_updated
  /\ op' = Op("load_budget_from_file", "", data["monthly_income"], TRUE, FALSE)
  /\ UNCHANGED today
  /\ UNCHANGED transactions
  /\ result' = NoResult

(***************************************************************************)
(* Transactions (modules/calculator.py)                                    *)
(***************************************************************************)
\* str.strip() on the names of the model
Strip(s) == IF s \in BlankNames THEN "" ELSE s

\* data_handler.validate_currency: <<>> is None, <<code>> the code
validate_currency(code) == IF code \in Currencies THEN <<code>> ELSE <<>>

\* the transaction dictionary built by add_income and add_expense; a date
\* of <<>> is None and stands for the day of the call
Transaction(type, amount, category, date, cur) ==
  [date |-> IF date = <<>> THEN today ELSE date[1],
   type |-> type,
   amount |-> Round2(amount),
   category |-> Strip(category),
   currency |-> cur]

\* add_income or add_expense, the transaction being appended to the history
AddTransaction(type, amount, category, date, cur) ==
  /\ LET validated_amount == validate_positive_number(amount)
         validated_currency == validate_currency(cur)
         call == IF type = "income" THEN "add_income" ELSE "add_expense"
     IN  IF validated_amount = <<>> \/ validated_currency = <<>>
         THEN /\ op' = Op(call, category, amount, FALSE, TRUE)
              /\ UNCHANGED transactions
         ELSE /\ transactions' =
                   Append(transactions,
                          Transaction(type, validated_amount[1], category,
                                      date, validated_currency[1]))
              /\ op' = Op(call, category, amount, TRUE, FALSE)
  /\ result' = NoResult
  /\ UNCHANGED <<created, budgetVars, today>>

\* the history holds at most MaxTx transactions
add_income(amount, category, date, cur) ==
  /\ Len(transactions) < MaxTx
  /\ AddTransaction("income", amount, category, date, cur)

add_expense(amount, category, date, cur) ==
  /\ Len(transactions) < MaxTx
  /\ AddTransaction("expense", amount, category, date, cur)

\* timedelta(days=...) of each recognised period
PeriodDays == [week |-> 7, month |-> 30, quarter |-> 90, year |-> 365]

\* mutant: the first day of the window is left out
get_transactions_by_period_exclusive(txs, period, now) ==
  IF period \notin DOMAIN PeriodDays THEN txs
  ELSE LET start_date == now - PeriodDays[period]
           AfterStart(t) == t.date > start_date
       IN  SelectSeq(txs, AfterStart)

\* get_transactions_by_period, called on day `now`
get_transactions_by_period(txs, period, now) ==
  IF period \notin DOMAIN PeriodDays THEN txs
  ELSE LET start_date == now - PeriodDays[period]
           FromStart(t) == t.date >= start_date
       IN  SelectSeq(txs, FromStart)

\* currency.convert_currency: <<>> is None.  The exchange rates are outside
\* the model: only the conversion of a currency into itself is available.
convert_currency(amount, from_currency, to_currency) ==
  IF from_currency = to_currency THEN <<amount>> ELSE <<>>

\* currency.normalize_to_base_currency: amounts re-expressed in base_currency,
\* a transaction that cannot be converted being kept as it is
normalize_to_base_currency(txs, base_currency) ==
  [i \in 1..Len(txs) |->
     LET converted == convert_currency(txs[i].amount, txs[i].currency, base_currency)
     IN  IF converted = <<>> THEN txs[i]
         ELSE [txs[i] EXCEPT !.amount = converted[1], !.currency = base_currency]]

\* mutant: transactions of every type are added up
RECURSIVE CategoryTotalsOfAllTypes(_, _, _)
CategoryTotalsOfAllTypes(txs, target_currency, category_totals) ==
  IF txs = <<>> THEN category_totals
  ELSE CategoryTotalsOfAllTypes(
         Tail(txs), target_currency,
         Put(category_totals, txs[1].category,
             Get(category_totals, txs[1].category, 0) + txs[1].amount))

\* mutant: a transaction whose conversion fails is left out
RECURSIVE CategoryTotalsDroppingFailed(_, _, _)
CategoryTotalsDroppingFailed(txs, target_currency, category_totals) ==
  IF txs = <<>> THEN category_totals
  ELSE LET t == txs[1]
           converted == IF t.currency # target_currency
                        THEN convert_currency(t.amount, t.currency, target_currency)
                        ELSE <<t.amount>>
           next == IF t.type # "expense" \/ converted = <<>> THEN category_totals
                   ELSE Put(category_totals, t.category,
                            Get(category_totals, t.category, 0) + converted[1])
       IN  CategoryTotalsDroppingFailed(Tail(txs), target_currency, next)

\* the loop of get_expense_breakdown: category_totals after the transactions
RECURSIVE CategoryTotals(_, _, _)
CategoryTotals(txs, target_currency, category_totals) ==
  IF txs = <<>> THEN category_totals
  ELSE LET t == txs[1]
           converted == IF t.currency # target_currency
                        THEN convert_currency(t.amount, t.currency, target_currency)
                        ELSE <<>>
           amount == IF converted # <<>> THEN converted[1] ELSE t.amount
           next == IF t.type # "expense" THEN category_totals
                   ELSE Put(category_totals, t.category,
                            Get(category_totals, t.category, 0) + amount)
       IN  CategoryTotals(Tail(txs), target_currency, next)

\* get_expense_breakdown without date filters
get_expense_breakdown(txs, target_currency) ==
  LET category_totals == CategoryTotals(txs, target_currency, <<>>)
  IN  [i \in 1..Len(category_totals) |->
         [name |-> category_totals[i].name,
          amount |-> Round2(category_totals[i].amount)]]

(***************************************************************************)
(* Budget tracking.  The comparison is a dict as above: the value kept     *)
(* under a name is the entry of that category.                             *)
(***************************************************************************)
\* float('inf') among the percentages
Infinity == -1

\* round(percentage_used, 1), in tenths of a percent
PercentageUsed(actual_amount, budgeted_amount) ==
  IF budgeted_amount > 0 THEN RoundSet(1000 * actual_amount, budgeted_amount)
  ELSE IF actual_amount = 0 THEN {0} ELSE {Infinity}

StatusOf(variance) ==
  IF variance > 0 THEN "over" ELSE IF variance < 0 THEN "under" ELSE "exact"

\* mutant: the variance is taken the other way round
BudgetEntryReversed(budgeted_amount, actual_amount, percentage_used) ==
  [budgeted |-> Round2(budgeted_amount),
   actual |-> Round2(actual_amount),
   variance |-> Round2(budgeted_amount - actual_amount),
   percentage_used |-> percentage_used,
   status |-> StatusOf(actual_amount - budgeted_amount)]

\* the entry of a budget category
BudgetEntry(budgeted_amount, actual_amount, percentage_used) ==
  [budgeted |-> Round2(budgeted_amount),
   actual |-> Round2(actual_amount),
   variance |-> Round2(actual_amount - budgeted_amount),
   percentage_used |-> percentage_used,
   status |-> StatusOf(actual_amount - budgeted_amount)]

\* the first loop of track_spending_vs_budget: one entry per budget category
RECURSIVE BudgetEntries(_, _)
BudgetEntries(cats, actual_spending) ==
  IF cats = <<>> THEN {<<>>}
  ELSE LET budgeted_amount == cats[1].amount
           actual_amount == Get(actual_spending, cats[1].name, 0)
       IN  {<<[name |-> cats[1].name,
               amount |-> BudgetEntry(budgeted_amount, actual_amount, p)]>> \o rest :
              p \in PercentageUsed(actual_amount, budgeted_amount),
              rest \in BudgetEntries(Tail(cats), actual_spending)}

\* total_spent after the first loop
RECURSIVE SpentOnBudget(_, _)
SpentOnBudget(cats, actual_spending) ==
  IF cats = <<>> THEN 0
  ELSE Get(actual_spending, cats[1].name, 0) + SpentOnBudget(Tail(cats), actual_spending)

\* mutant: spending without budget is reported with the status of an overrun
UnbudgetedEntryAsOver(amount) ==
  [budgeted |-> 0,
   actual |-> Round2(amount),
   variance |-> Round2(amount),
   percentage_used |-> Infinity,
   status |-> "over"]

\* the entry of a category with spending but no budget
UnbudgetedEntry(amount) ==
  [budgeted |-> 0,
   actual |-> Round2(amount),
   variance |-> Round2(amount),
   percentage_used |-> Infinity,
   status |-> "unbudgeted"]

\* mutant: spending without budget is left out of total_spent
WithUnbudgetedUncounted(acc, actual_spending, cats) ==
  [comparison |-> acc.comparison \o
                    SelectSeq([i \in 1..Len(actual_spending) |->
                                 [name |-> actual_spending[i].name,
                                  amount |-> UnbudgetedEntry(actual_spending[i].amount)]],
                              LAMBDA e : ~Has(cats, e.name)),
   total_spent |-> acc.total_spent]

\* the second loop: comparison and total_spent after the categories with
\* spending but no budget
RECURSIVE WithUnbudgeted(_, _, _)
WithUnbudgeted(acc, actual_spending, cats) ==
  IF actual_spending = <<>> THEN acc
  ELSE LET category == actual_spending[1].name
           amount == actual_spending[1].amount
           next == IF ~Has(cats, category)
                   THEN [comparison |-> Put(acc.comparison, category, UnbudgetedEntry(amount)),
                         total_spent |-> acc.total_spent + amount]
                   ELSE acc
       IN  WithUnbudgeted(next, Tail(actual_spending), cats)

\* round(total_spent / total_budgeted * 100, 1) if total_budgeted > 0 else 0.0
BudgetUtilization(total_spent, total_budgeted) ==
  IF total_budgeted > 0 THEN RoundSet(1000 * total_spent, total_budgeted) ELSE {0}

Summary(total_budgeted, total_spent, budget_utilization) ==
  [total_budgeted |-> Round2(total_budgeted),
   total_spent |-> Round2(total_spent),
   total_variance |-> Round2(total_spent - total_budgeted),
   budget_utilization |-> budget_utilization]

\* track_spending_vs_budget(b, txs, period) called on day `now`: the
\* comparisons it can return
TrackSpending(b, txs, period, now) ==
  LET filtered == get_transactions_by_period(txs, period, now)
      period_transactions ==
        IF b.currency # DEFAULT_CURRENCY
        THEN normalize_to_base_currency(filtered, b.currency)
        ELSE filtered
      actual_spending == get_expense_breakdown(period_transactions, b.currency)
      total_budgeted == SumValues(b.categories)
      Loops(entries) ==
        WithUnbudgeted([comparison |-> entries,
                        total_spent |-> SpentOnBudget(b.categories, actual_spending)],
                       actual_spending, b.categories)
      total_spent == Loops(<<>>).total_spent
  IN  {Put(Loops(entries).comparison, "_summary",
           Summary(total_budgeted, total_spent, u)) :
         entries \in BudgetEntries(b.categories, actual_spending),
         u \in BudgetUtilization(total_spent, total_budgeted)}

\* mutant: the entries of status 'exact' are listed with those under budget
WithStatusExactAsUnder(comparison, status) ==
  LET Is(e) == /\ e.name # "_summary"
               /\ \/ e.amount.status = status
                  \/ status = "under" /\ e.amount.status = "exact"
      chosen == SelectSeq(comparison, Is)
  IN  [i \in 1..Len(chosen) |-> chosen[i].name]

\* the categories of a comparison that have the given status, in order
WithStatus(comparison, status) ==
  LET Is(e) == e.name # "_summary" /\ e.amount.status = status
      chosen == SelectSeq(comparison, Is)
  IN  [i \in 1..Len(chosen) |-> chosen[i].name]

\* get_budget_status, from the comparison that track_spending_vs_budget
\* returned to it
get_budget_status(b, comparison) ==
  LET summary == Get(comparison, "_summary", <<>>)
  IN  [budget_health |-> IF summary.total_variance <= 0 THEN "healthy" ELSE "over_budget",
       total_budgeted |-> summary.total_budgeted,
       total_spent |-> summary.total_spent,
       remaining_budget |-> get_remaining_budget(b.monthly_income, b.categories),
       budget_utilization |-> summary.budget_utilization,
       over_budget_categories |-> WithStatus(comparison, "over"),
       under_budget_categories |-> WithStatus(comparison, "under"),
       unbudgeted_categories |-> WithStatus(comparison, "unbudgeted"),
       categories_count |-> Len(b.categories),
       currency |-> b.currency]

(***************************************************************************)
(* Adjustment suggestions                                                  *)
(***************************************************************************)
Max(x, y) == IF x >= y THEN x ELSE y

Suggestion(category, type, current_amount, suggested_amount, priority) ==
  [category |-> category, type |-> type, current_amount |-> current_amount,
   suggested_amount |-> suggested_amount, priority |-> priority]

\* mutant: the buffer of 20% is left out of the suggested increase
IncreaseWithoutBuffer(category, budgeted, variance) ==
  {<<Suggestion(category, "increase", budgeted, s,
                IF 4 * variance > budgeted THEN "high" ELSE "medium")>> :
     s \in Round2Set(budgeted + variance, 1)}

\* the 'increase' suggestion: budgeted + variance * 1.2, rounded
Increase(category, budgeted, variance) ==
  {<<Suggestion(category, "increase", budgeted, s,
                IF 4 * variance > budgeted THEN "high" ELSE "medium")>> :
     s \in Round2Set(10 * budgeted + 12 * variance, 10)}

\* mutant: the buffer of 10% above the actual spending is not kept
DecreaseWithoutFloor(category, budgeted, actual, variance) ==
  {<<Suggestion(category, "decrease", budgeted, s, "low")>> :
     s \in Round2Set(10 * budgeted - 5 * Abs(variance), 10)}

\* the 'decrease' suggestion: max(budgeted - abs(variance) * 0.5,
\* actual * 1.1), rounded
Decrease(category, budgeted, actual, variance) ==
  {<<Suggestion(category, "decrease", budgeted, s, "low")>> :
     s \in Round2Set(Max(10 * budgeted - 5 * Abs(variance), 11 * actual), 10)}

\* mutant: the new category is suggested at the actual spending, no buffer
AddAtActual(category, actual) ==
  {<<Suggestion(category, "add", 0, s, "medium")>> :
     s \in Round2Set(actual, 1)}

\* the 'add' suggestion: actual * 1.2, rounded
Add(category, actual) ==
  {<<Suggestion(category, "add", 0, s, "medium")>> :
     s \in Round2Set(12 * actual, 10)}

\* the body of the loop of suggest_budget_adjustments for one entry: the
\* suggestions it can append (none, or one)
SuggestionsFor(category, data) ==
  LET budgeted == data.budgeted
      actual == data.actual
      variance == data.variance
  IN  IF data.status = "over"
      THEN UNION {IF exceeds THEN Increase(category, budgeted, variance) ELSE {<<>>} :
                    exceeds \in ExceedsTenths(variance, budgeted, 1)}
      ELSE IF data.status = "under"
      THEN UNION {IF exceeds THEN Decrease(category, budgeted, actual, variance)
                  ELSE {<<>>} :
                    exceeds \in ExceedsTenths(Abs(variance), budgeted, 3)}
      ELSE IF data.status = "unbudgeted" /\ actual > 0
      THEN Add(category, actual)
      ELSE {<<>>}

\* the loop of suggest_budget_adjustments over the comparison
RECURSIVE SuggestionLists(_)
SuggestionLists(comparison) ==
  IF comparison = <<>> THEN {<<>>}
  ELSE IF comparison[1].name = "_summary" THEN SuggestionLists(Tail(comparison))
  ELSE {first \o rest :
          first \in SuggestionsFor(comparison[1].name, comparison[1].amount),
          rest \in SuggestionLists(Tail(comparison))}

\* the sort key of a priority
priority_order == [high |-> 3, medium |-> 2, low |-> 1]

\* mutant: the suggestions are returned in the order of the loop
SortByPriorityNot(suggestions) == suggestions

\* suggestions.sort(key=priority_order, reverse=True): a stable sort
SortByPriority(suggestions) ==
  LET High(x) == x.priority = "high"
      Medium(x) == x.priority = "medium"
      Low(x) == x.priority = "low"
  IN  SelectSeq(suggestions, High) \o SelectSeq(suggestions, Medium)
        \o SelectSeq(suggestions, Low)

\* suggest_budget_adjustments, from the comparison that
\* track_spending_vs_budget returned to it: the lists it can return
Suggestions(comparison) ==
  {SortByPriority(suggestions) : suggestions \in SuggestionLists(comparison)}

(***************************************************************************)
(* Health score                                                            *)
(***************************************************************************)
\* mutant: the score is not clamped
ClampNot(score) == score

\* max(0, min(100, score)), in tenths
Clamp(score) == IF score < 0 THEN 0 ELSE IF score > 1000 THEN 1000 ELSE score

\* mutant: the thresholds of Good and Fair are exchanged
HealthLevelExchanged(score) ==
  IF score >= 800 THEN "Excellent"
  ELSE IF score >= 400 THEN "Good"
  ELSE IF score >= 600 THEN "Fair"
  ELSE "Poor"

HealthLevel(score) ==
  IF score >= 800 THEN "Excellent"
  ELSE IF score >= 600 THEN "Good"
  ELSE IF score >= 400 THEN "Fair"
  ELSE "Poor"

\* get_budget_health_score, from the status and the suggestions returned to
\* it.  The score is counted in tenths, which round(score, 1) keeps.
HealthScore(status, suggestions) ==
  LET utilization == status.budget_utilization
      over_budget_penalty == Len(status.over_budget_categories) * 100
      unbudgeted_penalty == Len(status.unbudgeted_categories) * 50
      high_penalty == IF utilization > 950 THEN (utilization - 950) * 2 ELSE 0
      bonus == IF 800 <= utilization /\ utilization <= 900 THEN 100 ELSE 0
      score == Clamp(1000 - over_budget_penalty - unbudgeted_penalty
                       - high_penalty + bonus)
  IN  [score |-> score,
       health_level |-> HealthLevel(score),
       budget_utilization |-> utilization,
       over_budget_count |-> Len(status.over_budget_categories),
       unbudgeted_count |-> Len(status.unbudgeted_categories),
       recommendations_count |-> Len(suggestions)]

(***************************************************************************)
(* Analysis calls                                                          *)
(***************************************************************************)
Result(call, period, out) == [call |-> call, period |-> period, out |-> out]

\* get_transactions_by_period(transactions, period)
filter_by_period(period) ==
  /\ result' = Result("get_transactions_by_period", period,
                      get_transactions_by_period(transactions, period, today))
  /\ op' = Op("get_transactions_by_period", "", 0, TRUE, FALSE)
  /\ UNCHANGED <<created, budgetVars, today, transactions>>

\* get_expense_breakdown(transactions, target_currency=...); the result
\* records the target currency where the other calls record their period
expense_breakdown(target_currency) ==
  /\ result' = Result("get_expense_breakdown", target_currency,
                      get_expense_breakdown(transactions, target_currency))
  /\ op' = Op("get_expense_breakdown", "", 0, TRUE, FALSE)
  /\ UNCHANGED <<created, budgetVars, today, transactions>>

\* mutant: the categories spent on without budget are entered in the budget
track_spending_vs_budget_budgeting(period) ==
  /\ created
  /\ \E comparison \in TrackSpending(Budget, transactions, period, today) :
       /\ result' = Result("track_spending_vs_budget", period, comparison)
       /\ categories' = categories \o
                          [i \in 1..Len(WithStatus(comparison, "unbudgeted")) |->
                             [name |-> WithStatus(comparison, "unbudgeted")[i],
                              amount |-> 0]]
  /\ op' = Op("track_spending_vs_budget", "", 0, TRUE, FALSE)
  /\ UNCHANGED <<created, monthly_income, currency, created_date, last_updated,
                 today, transactions>>

\* track_spending_vs_budget(budget, transactions, period)
track_spending_vs_budget(period) ==
  /\ created
  /\ \E comparison \in TrackSpending(Budget, transactions, period, today) :
       result' = Result("track_spending_vs_budget", period, comparison)
  /\ op' = Op("track_spending_vs_budget", "", 0, TRUE, FALSE)
  /\ UNCHANGED <<created, budgetVars, today, transactions>>

\* get_budget_status(budget, transactions)
budget_status ==
  /\ created
  /\ \E comparison \in TrackSpending(Budget, transactions, "month", today) :
       result' = Result("get_budget_status", "month",
                        get_budget_status(Budget, comparison))
  /\ op' = Op("get_budget_status", "", 0, TRUE, FALSE)
  /\ UNCHANGED <<created, budgetVars, today, transactions>>

\* suggest_budget_adjustments(budget, transactions)
suggest_budget_adjustments ==
  /\ created
  /\ \E comparison \in TrackSpending(Budget, transactions, "month", today) :
       \E suggestions \in Suggestions(comparison) :
         result' = Result("suggest_budget_adjustments", "month", suggestions)
  /\ op' = Op("suggest_budget_adjustments", "", 0, TRUE, FALSE)
  /\ UNCHANGED <<created, budgetVars, today, transactions>>

\* get_budget_health_score(budget, transactions)
get_budget_health_score ==
  /\ created
  /\ \E comparison \in TrackSpending(Budget, transactions, "month", today) :
       \E suggestions \in Suggestions(comparison) :
         result' = Result("get_budget_health_score", "month",
                          HealthScore(get_budget_status(Budget, comparison),
                                      suggestions))
  /\ op' = Op("get_budget_health_score", "", 0, TRUE, FALSE)
  /\ UNCHANGED <<created, budgetVars, today, transactions>>

(***************************************************************************)
(* Specifications                                                          *)
(***************************************************************************)
\* create_budget followed by add_category calls only
NextAdd ==
  \/ \E income \in Incomes, cur \in Currencies : create_budget(income, cur)
  \/ \E category \in Names, amount \in Amounts : add_category(category, amount)
  \/ Tick

SpecAdd == Init /\ [][NextAdd]_vars

\* create_budget followed by any interleaving of the mutating operations
Next ==
  \/ \E income \in Incomes, cur \in Currencies : create_budget(income, cur)
  \/ \E category \in Names, amount \in Amounts : add_category(category, amount)
  \/ \E category \in Names : remove_category(category)
  \/ \E new_income \in Incomes : update_budget_income(new_income)
  \/ Tick

Spec == Init /\ [][Next]_vars

\* as Spec, with one more category name to choose from
NextWide ==
  \/ \E income \in Incomes, cur \in Currencies : create_budget(income, cur)
  \/ \E category \in MoreNames, amount \in Amounts : add_category(category, amount)
  \/ \E category \in MoreNames : remove_category(category)
  \/ \E new_income \in Incomes : update_budget_income(new_income)
  \/ Tick

SpecWide == Init /\ [][NextWide]_vars

\* the operations that validate a number, on one day: the budget is created
\* by create_budget or from a template, then categories are set and the
\* income is updated
NextTemplate ==
  \/ \E income \in Incomes, cur \in Currencies : create_budget(income, cur)
  \/ \E income \in TemplateIncomes, template \in Templates, cur \in Currencies :
       create_budget_from_template(income, template, cur)
  \/ \E category \in Names, amount \in Amounts : add_category(category, amount)
  \/ \E new_income \in Incomes : update_budget_income(new_income)

SpecTemplate == Init /\ [][NextTemplate]_vars

\* as Spec, the budget being reloaded from its persisted record
NextLoad ==
  \/ \E data \in LoadData : load_budget_from_file(data)
  \/ \E category \in Names, amount \in Amounts : add_category(category, amount)
  \/ \E category \in Names : remove_category(category)
  \/ \E new_income \in Incomes : update_budget_income(new_income)
  \/ Tick

SpecLoad == Init /\ [][NextLoad]_vars

\* the arguments of add_expense: spending of today in a budgeted category,
\* in a category without budget and under the name "_summary", one expense
\* older than a month, and one amount that fails validation
ExpenseInputs ==
  {<<77 * Cent, "Housing", <<>>>>,
   <<105 * Cent, "Housing", <<>>>>,
   <<105 * Cent, "Pets", <<>>>>,
   <<77 * Cent, "_summary", <<>>>>,
   <<105 * Cent, "Housing", <<today - 31>>>>,
   <<0, "Housing", <<>>>>}

\* the arguments of add_income
IncomeInputs == {<<105 * Cent, "Housing", <<>>>>}

\* a budget in the default currency, its spending and the analysis of it
NextTrack ==
  \/ \E income \in TrackIncomes : create_budget(income, DEFAULT_CURRENCY)
  \/ \E category \in BudgetNames, amount \in BudgetAmounts :
       add_category(category, amount)
  \/ \E new_income \in ShrunkIncomes : update_budget_income(new_income)
  \/ \E x \in ExpenseInputs : add_expense(x[1], x[2], x[3], DEFAULT_CURRENCY)
  \/ \E x \in IncomeInputs : add_income(x[1], x[2], x[3], DEFAULT_CURRENCY)
  \/ \E period \in TrackPeriods : track_spending_vs_budget(period)
  \/ budget_status
  \/ suggest_budget_adjustments
  \/ get_budget_health_score

SpecTrack == Init /\ [][NextTrack]_vars

\* the dates of the transactions of SpecPeriod: today, tomorrow, and the
\* first day inside and the last day outside the window of every period
PeriodDates ==
  {<<>>, <<today + 1>>}
    \cup {<<today - PeriodDays[p]>> : p \in DOMAIN PeriodDays}
    \cup {<<today - PeriodDays[p] - 1>> : p \in DOMAIN PeriodDays}

\* a history of dated transactions and its filtering by period
NextPeriod ==
  \/ \E date \in PeriodDates : add_expense(105 * Cent, "Housing", date, DEFAULT_CURRENCY)
  \/ \E period \in Periods : filter_by_period(period)

SpecPeriod == Init /\ [][NextPeriod]_vars

\* the arguments of the transactions of SpecBreakdown: two amounts, two
\* categories, and every currency
BreakdownAmounts == {77 * Cent, 105 * Cent}
BreakdownNames == {"Housing", "Pets"}

\* a history of transactions in several currencies and its breakdown by
\* category in a target currency
NextBreakdown ==
  \/ \E amount \in BreakdownAmounts, category \in BreakdownNames, cur \in Currencies :
       add_expense(amount, category, <<>>, cur)
  \/ \E cur \in Currencies : add_income(105 * Cent, "Housing", <<>>, cur)
  \/ \E target_currency \in Currencies : expense_breakdown(target_currency)

SpecBreakdown == Init /\ [][NextBreakdown]_vars

(***************************************************************************)
(* Properties                                                              *)
(***************************************************************************)
ValidAmount(x) == validate_positive_number(x) # <<>>

\* c is a whole number of cents nearest to the exact quotient n/d
IsNearestCent(c, n, d) == c % Cent = 0 /\ 2 * Abs(c * d - n) <= Cent * d

\* C1: after create_budget and any sequence of add_category calls, accepted
\* or rejected, get_total_budget() <= monthly_income.
C1_TotalWithinIncome ==
  created => get_total_budget(categories) <= monthly_income

\* an add_category call was rejected for exceeding the income of a budget
\* that holds two categories and is fully allocated
C1_Witness ==
  /\ op.name = "add_category" /\ ~op.ret
  /\ op.category \notin BlankNames /\ ValidAmount(op.amount)
  /\ Len(categories) = 2
  /\ get_total_budget(categories) = monthly_income

\* C2: in every state reached from create_budget by add_category,
\* remove_category and update_budget_income, the category allocations sum
\* to at most monthly_income.
C2_SumWithinIncome ==
  created => SumValues(categories) <= monthly_income

\* C3: an add_category call rejected because the new total would exceed
\* monthly_income leaves the categories mapping as it was before the call.
C3_RejectedAddKeepsCategories ==
  [][(/\ op'.name = "add_category" /\ ~op'.ret
      /\ op'.category \notin BlankNames /\ ValidAmount(op'.amount))
     => categories' = categories]_vars

\* C4: add_category with an empty or whitespace-only name, or with an amount
\* that fails validation, returns False and leaves the whole budget unchanged.
C4_InvalidAddIsNoOp ==
  [][(/\ op'.name = "add_category"
      /\ (op'.category \in BlankNames \/ ~ValidAmount(op'.amount)))
     => (~op'.ret /\ ~op'.raised /\ UNCHANGED budgetVars)]_vars

\* add_category was called with a whitespace-only name and a valid amount on
\* a budget that holds a category, and returned False
C4_Witness ==
  /\ op.name = "add_category" /\ op.category = " " /\ ValidAmount(op.amount)
  /\ ~op.ret
  /\ Len(categories) >= 1

\* C5: remove_category on an absent name returns False and changes nothing;
\* on a present name it returns True, removes exactly that key, keeps every
\* other category, the income and the currency, and sets last_updated to the
\* current date.
C5_RemoveCategory ==
  [][op'.name = "remove_category" =>
       IF Has(categories, op'.category)
       THEN /\ op'.ret
            /\ KeysOf(categories') = KeysOf(categories) \ {op'.category}
            /\ Len(categories') = Len(categories) - 1
            /\ \A k \in KeysOf(categories') :
                 Get(categories', k, 0) = Get(categories, k, 0)
            /\ monthly_income' = monthly_income
            /\ currency' = currency
            /\ created_date' = created_date
            /\ last_updated' = today
       ELSE ~op'.ret /\ UNCHANGED budgetVars]_vars

\* remove_category removed the first of two categories on a later day than
\* the budget was created: the other one is left, last_updated is today
C5_Witness ==
  /\ op.name = "remove_category" /\ op.ret
  /\ Len(categories) = 1 /\ categories[1].name # op.category
  /\ categories[1].amount > 0
  /\ last_updated = today /\ today > created_date

\* C6: update_budget_income with a valid new income and a prior income > 0
\* returns True, keeps the category names, sets each category to
\* round(old * newIncome / oldIncome, 2) and monthly_income to newIncome.
C6_UpdateIncomeRescales ==
  [][(/\ op'.name = "update_budget_income" /\ ValidAmount(op'.amount)
      /\ monthly_income > 0)
     => /\ op'.ret
        /\ monthly_income' = op'.amount
        /\ Len(categories') = Len(categories)
        /\ \A i \in 1..Len(categories) :
             /\ categories'[i].name = categories[i].name
             /\ IsNearestCent(categories'[i].amount,
                              categories[i].amount * op'.amount,
                              monthly_income)]_vars

\* update_budget_income succeeded on a budget with two categories, which now
\* hold different non-zero amounts
C6_Witness ==
  /\ op.name = "update_budget_income" /\ op.ret
  /\ monthly_income = op.amount
  /\ Len(categories) = 2
  /\ categories[1].amount > categories[2].amount
  /\ categories[2].amount > 0

\* C7: update_budget_income with a valid new income and a prior income of 0
\* returns True, sets monthly_income and leaves the categories unchanged.
C7_UpdateFromZeroIncome ==
  [][(/\ op'.name = "update_budget_income" /\ ValidAmount(op'.amount)
      /\ monthly_income = 0)
     => /\ op'.ret
        /\ monthly_income' = op'.amount
        /\ categories' = categories
        /\ currency' = currency]_vars

\* update_budget_income succeeded on a reloaded budget with two categories
\* without touching last_updated: only the zero-income branch does that
C7_Witness ==
  /\ op.name = "update_budget_income" /\ op.ret
  /\ monthly_income = op.amount
  /\ last_updated < today
  /\ Len(categories) = 2

\* C8: update_budget_income with an income that fails validation returns
\* False and leaves monthly_income, the categories and last_updated unchanged.
C8_InvalidIncomeRejected ==
  [][(op'.name = "update_budget_income" /\ ~ValidAmount(op'.amount))
     => (/\ ~op'.ret
         /\ UNCHANGED <<monthly_income, categories, last_updated>>)]_vars

\* update_budget_income returned False on a budget that holds a category and
\* was last updated on an earlier day
C8_Witness ==
  /\ op.name = "update_budget_income" /\ ~op.ret
  /\ Len(categories) >= 1
  /\ last_updated < today

\* C9 as stated: no core budget operation raises on an invalid number.
C9_NeverRaises == ~op.raised

\* C9 amended: add_category and update_budget_income never raise and answer
\* an invalid number by returning False; create_budget and
\* create_budget_from_template raise exactly when the income is invalid.
C9_FailureSignals ==
  /\ op.name \in {"add_category", "update_budget_income"} =>
       /\ ~op.raised
       /\ ~ValidAmount(op.amount) => ~op.ret
  /\ op.name \in {"create_budget", "create_budget_from_template"} =>
       /\ op.raised <=> ~ValidAmount(op.amount)
       /\ op.ret <=> ~op.raised

\* create_budget_from_template was called with an invalid income: it raised
\* and no budget exists
C9_Witness ==
  /\ op.name = "create_budget_from_template" /\ op.raised
  /\ ~created

LookBack(period) ==
  IF period = "week" THEN <<7>>
  ELSE IF period = "month" THEN <<30>>
  ELSE IF period = "quarter" THEN <<90>>
  ELSE IF period = "year" THEN <<365>>
  ELSE <<>>

\* the transaction lies in the window of the period that ends today
InPeriod(t, period) ==
  LookBack(period) = <<>> \/ t.date >= today - LookBack(period)[1]

\* the expenses of the period
ExpensesOf(period) ==
  SelectSeq(transactions, LAMBDA t : t.type = "expense" /\ InPeriod(t, period))

\* the period's expense total of a category
ExpenseTotal(category, period) ==
  SumValues(SelectSeq(ExpensesOf(period), LAMBDA t : t.category = category))

\* p, in tenths, is nearest to the exact quotient n/d
IsNearestTenth(p, n, d) == 2 * Abs(p * d - n) <= d

\* the entry kept under a name of a comparison, <<>> when there is none or
\* when what is kept there is not the entry of a category
EntryOf(comparison, category) ==
  LET e == Get(comparison, category, <<>>)
  IN  IF e # <<>> /\ "status" \in DOMAIN e THEN e ELSE <<>>

Tracked == result.call = "track_spending_vs_budget"

\* C11: the comparison holds, for every category of the budget whatever its
\* name, an entry with budgeted = the allocation, actual = the period's
\* expense total, variance = actual - budgeted, percentage_used =
\* actual / budgeted * 100 (0 or infinity when nothing is budgeted) and the
\* status over, under or exact after the sign of the variance.
C11_BudgetCategoryEntries ==
  Tracked =>
    \A i \in 1..Len(categories) :
      LET budgeted == categories[i].amount
          actual == ExpenseTotal(categories[i].name, result.period)
          e == EntryOf(result.out, categories[i].name)
      IN  /\ e # <<>>
          /\ e.budgeted = budgeted
          /\ e.actual = actual
          /\ e.variance = actual - budgeted
          /\ IF budgeted > 0
             THEN IsNearestTenth(e.percentage_used, 1000 * actual, budgeted)
             ELSE e.percentage_used = (IF actual = 0 THEN 0 ELSE Infinity)
          /\ e.status = (IF actual > budgeted THEN "over"
                         ELSE IF actual < budgeted THEN "under" ELSE "exact")

\* the names that occur in the budget, the history or the comparison
NamesInPlay ==
  KeysOf(categories) \cup KeysOf(result.out)
    \cup {transactions[i].category : i \in 1..Len(transactions)}

\* C12: a category has an entry of status 'unbudgeted' exactly when it has
\* expenses in the period and is absent from the budget; that entry has
\* budgeted 0, variance = actual and an infinite percentage_used.
C12_UnbudgetedEntries ==
  Tracked =>
    \A category \in NamesInPlay :
      LET e == EntryOf(result.out, category)
          spent == SelectSeq(ExpensesOf(result.period),
                             LAMBDA t : t.category = category)
      IN  /\ (e # <<>> /\ e.status = "unbudgeted")
               <=> (spent # <<>> /\ ~Has(categories, category))
          /\ (e # <<>> /\ e.status = "unbudgeted") =>
               /\ e.budgeted = 0
               /\ e.actual = ExpenseTotal(category, result.period)
               /\ e.variance = e.actual
               /\ e.percentage_used = Infinity

\* C13: the '_summary' entry has total_budgeted = the sum of the
\* allocations, total_spent = the period's expenses of all categories,
\* total_variance = total_spent - total_budgeted and budget_utilization =
\* total_spent / total_budgeted * 100 to one decimal, 0 when nothing is
\* budgeted.
C13_Summary ==
  Tracked =>
    LET summary == Get(result.out, "_summary", <<>>)
        total_budgeted == SumValues(categories)
        total_spent == SumValues(ExpensesOf(result.period))
    IN  /\ Has(result.out, "_summary")
        /\ summary.total_budgeted = total_budgeted
        /\ summary.total_spent = total_spent
        /\ summary.total_variance = total_spent - total_budgeted
        /\ IF total_budgeted = 0 THEN summary.budget_utilization = 0
           ELSE IsNearestTenth(summary.budget_utilization,
                               1000 * total_spent, total_budgeted)

\* a comparison over a budget of two categories, with spending in a budgeted
\* category and in one without budget
C13_Witness ==
  /\ Tracked
  /\ Len(categories) = 2
  /\ EntryOf(result.out, "Pets") # <<>>
  /\ ExpenseTotal("Housing", result.period) > 0
  /\ Get(result.out, "_summary", <<>>).budget_utilization > 0

\* a comparison over a budget whose allocations are all 0.00
C13_WitnessNothingBudgeted ==
  /\ Tracked
  /\ Len(categories) >= 1
  /\ SumValues(categories) = 0
  /\ Get(result.out, "_summary", <<>>).total_spent > 0

\* income transactions that could be in the history
IncomeSamples ==
  {Transaction("income", 105 * Cent, category, <<>>, currency) :
     category \in {"Housing", "Pets", "_summary"}}

\* C14: only expenses count: the comparison is the one of the history
\* without its income transactions, and one more income transaction in any
\* category leaves every entry, '_summary' included, unchanged.
C14_IncomeIgnored ==
  Tracked =>
    LET expenses == SelectSeq(transactions, LAMBDA t : t.type = "expense")
        Comparisons(txs) == TrackSpending(Budget, txs, result.period, today)
    IN  /\ result.out \in Comparisons(expenses)
        /\ Comparisons(transactions) = Comparisons(expenses)
        /\ \A t \in IncomeSamples :
             Comparisons(Append(transactions, t)) = Comparisons(transactions)

\* a comparison of a history that holds an income transaction in a category
\* of the budget, and an expense
C14_Witness ==
  /\ Tracked
  /\ \E i \in 1..Len(transactions) :
       transactions[i].type = "income" /\ Has(categories, transactions[i].category)
  /\ \E i \in 1..Len(transactions) : transactions[i].type = "expense"
  /\ EntryOf(result.out, "Housing") # <<>>
  /\ EntryOf(result.out, "Housing").actual > 0

\* C15: get_transactions_by_period returns, in their order, exactly the
\* transactions dated on or after today minus 7, 30, 90 or 365 days for
\* 'week', 'month', 'quarter', 'year' (the first day of the window and
\* future dates included), and all transactions for any other period.
C15_PeriodFilter ==
  result.call = "get_transactions_by_period" =>
    result.out = SelectSeq(transactions, LAMBDA t : InPeriod(t, result.period))

\* the week's transactions of a history that holds one transaction dated on
\* the first day of the window and one dated the day before
C15_Witness ==
  /\ result.call = "get_transactions_by_period" /\ result.period = "week"
  /\ Len(transactions) = 2
  /\ {transactions[1].date, transactions[2].date} = {today - 7, today - 8}
  /\ Len(result.out) = 1
  /\ result.out[1].date = today - 7

Scored == result.call = "get_budget_health_score"

\* the comparisons of the month that ends today
MonthComparisons == TrackSpending(Budget, transactions, "month", today)

\* the number of categories a comparison reports with the given status
CountStatus(comparison, status) ==
  Cardinality({i \in 1..Len(comparison) :
                 EntryOf(comparison, comparison[i].name) # <<>>
                   /\ comparison[i].amount.status = status})

\* C16: the score is 100 - 10 per 'over' category - 5 per 'unbudgeted'
\* category - 2 * (utilization - 95) when the utilization is above 95,
\* + 10 when it lies in [80, 90], clamped: it always lies in [0, 100], and
\* it is 100 with nothing over, nothing unbudgeted and a utilization of 85.
C16_HealthScore ==
  Scored =>
    \E comparison \in MonthComparisons :
      LET over == CountStatus(comparison, "over")
          unbudgeted == CountStatus(comparison, "unbudgeted")
          utilization == Get(comparison, "_summary", <<>>).budget_utilization
          raw == 1000 - 100 * over - 50 * unbudgeted
                   - (IF utilization > 950 THEN 2 * (utilization - 950) ELSE 0)
                   + (IF utilization >= 800 /\ utilization <= 900 THEN 100 ELSE 0)
      IN  /\ result.out.score = (IF raw < 0 THEN 0 ELSE IF raw > 1000 THEN 1000 ELSE raw)
          /\ result.out.score >= 0 /\ result.out.score <= 1000
          /\ (over = 0 /\ unbudgeted = 0 /\ utilization = 850) => result.out.score = 1000

\* a score strictly between 0 and 100 of a budget with one category over
\* its allocation and a utilization above 95%
C16_Witness ==
  /\ Scored
  /\ result.out.over_budget_count = 1
  /\ result.out.budget_utilization > 950
  /\ result.out.score > 0 /\ result.out.score < 1000

\* a score that the bonus would lift above 100, clamped: nothing over,
\* nothing unbudgeted, utilization within [80, 90]
C16_WitnessBonus ==
  /\ Scored
  /\ result.out.over_budget_count = 0 /\ result.out.unbudgeted_count = 0
  /\ result.out.budget_utilization >= 800 /\ result.out.budget_utilization <= 900
  /\ result.out.score = 1000

\* C17: the health level depends on the returned score alone: Excellent
\* from 80, Good from 60 to below 80, Fair from 40 to below 60, Poor below.
C17_HealthLevel ==
  Scored =>
    LET score == result.out.score
        level == result.out.health_level
    IN  /\ level = "Excellent" <=> score >= 800
        /\ level = "Good" <=> (score >= 600 /\ score < 800)
        /\ level = "Fair" <=> (score >= 400 /\ score < 600)
        /\ level = "Poor" <=> score < 400

\* a score in the band of Fair
C17_Witness ==
  /\ Scored
  /\ result.out.health_level = "Fair"
  /\ result.out.score >= 400 /\ result.out.score < 600

Suggested == result.call = "suggest_budget_adjustments"

\* the suggestions of a type made for a category
SuggestionsOf(type, category) ==
  {result.out[i] : i \in {j \in 1..Len(result.out) :
                            result.out[j].type = type
                              /\ result.out[j].category = category}}

\* C18: a category gets an 'increase' suggestion exactly when it is 'over'
\* with variance > 0.10 * budgeted (not at exactly 10%); the suggested
\* amount is budgeted + 1.2 * variance to the cent, the priority 'high' if
\* variance > 0.25 * budgeted and 'medium' otherwise.
C18_IncreaseSuggestions ==
  Suggested =>
    \E comparison \in MonthComparisons :
      \A k \in 1..Len(comparison) :
        LET category == comparison[k].name
            e == EntryOf(comparison, category)
        IN  e # <<>> =>
              /\ SuggestionsOf("increase", category) # {}
                   <=> (e.status = "over" /\ 10 * e.variance > e.budgeted)
              /\ \A x \in SuggestionsOf("increase", category) :
                   /\ x.current_amount = e.budgeted
                   /\ IsNearestCent(x.suggested_amount,
                                    10 * e.budgeted + 12 * e.variance, 10)
                   /\ x.priority = (IF 4 * e.variance > e.budgeted
                                    THEN "high" ELSE "medium")

\* C19: a category gets a 'decrease' suggestion exactly when it is 'under'
\* with |variance| > 0.30 * budgeted; the suggested amount is
\* max(budgeted - 0.5 * |variance|, 1.1 * actual) to the cent, the priority
\* 'low'.
C19_DecreaseSuggestions ==
  Suggested =>
    \E comparison \in MonthComparisons :
      \A k \in 1..Len(comparison) :
        LET category == comparison[k].name
            e == EntryOf(comparison, category)
        IN  e # <<>> =>
              /\ SuggestionsOf("decrease", category) # {}
                   <=> (e.status = "under" /\ 10 * Abs(e.variance) > 3 * e.budgeted)
              /\ \A x \in SuggestionsOf("decrease", category) :
                   /\ x.current_amount = e.budgeted
                   /\ IsNearestCent(x.suggested_amount,
                                    Max(10 * e.budgeted - 5 * Abs(e.variance),
                                        11 * e.actual), 10)
                   /\ x.priority = "low"

\* C20: every category that is 'unbudgeted' with actual > 0 gets an 'add'
\* suggestion with current_amount 0, suggested_amount = 1.2 * actual to the
\* cent and priority 'medium'; no category of the budget gets one.
C20_AddSuggestions ==
  Suggested =>
    /\ \E comparison \in MonthComparisons :
         \A k \in 1..Len(comparison) :
           LET category == comparison[k].name
               e == EntryOf(comparison, category)
           IN  (e # <<>> /\ e.status = "unbudgeted" /\ e.actual > 0) =>
                 /\ SuggestionsOf("add", category) # {}
                 /\ \A x \in SuggestionsOf("add", category) :
                      /\ x.current_amount = 0
                      /\ IsNearestCent(x.suggested_amount, 12 * e.actual, 10)
                      /\ x.priority = "medium"
    /\ \A category \in KeysOf(categories) : SuggestionsOf("add", category) = {}

\* Pets, spent on without budget, is suggested at 1.26 for spending of 1.05,
\* next to a suggestion for a category of the budget
C20_Witness ==
  /\ Suggested
  /\ \E x \in SuggestionsOf("add", "Pets") : x.suggested_amount = 126 * Cent
  /\ \E category \in KeysOf(categories) :
       SuggestionsOf("increase", category) \cup SuggestionsOf("decrease", category) # {}

(***************************************************************************)
(* Properties of the queries as a whole and of the templates               *)
(***************************************************************************)
\* the place at which the loop of suggest_budget_adjustments meets a
\* category: the categories of the budget in insertion order, then the
\* categories spent on without budget, in the order of their first expense
\* of the month
Encounter(category) ==
  LET expenses == ExpensesOf("month")
  IN  IF Has(categories, category) THEN IndexOf(categories, category)
      ELSE Len(categories)
             + (CHOOSE i \in 1..Len(expenses) :
                  /\ expenses[i].category = category
                  /\ \A j \in 1..(i - 1) : expenses[j].category # category)

\* C21: the suggestions are returned by priority weight descending (high
\* before medium before low), and suggestions of equal priority keep the
\* order in which their categories were met in the comparison.
C21_OrderedByPriority ==
  Suggested =>
    \A i, j \in 1..Len(result.out) :
      i < j =>
        /\ priority_order[result.out[i].priority]
             >= priority_order[result.out[j].priority]
        /\ result.out[i].priority = result.out[j].priority =>
             Encounter(result.out[i].category) < Encounter(result.out[j].category)

\* the 'add' suggestion of Pets (medium) is returned before the 'decrease'
\* suggestion of Housing (low), the loop having met Housing first
C21_Witness ==
  /\ Suggested
  /\ Len(result.out) = 2
  /\ result.out[1].category = "Pets" /\ result.out[1].priority = "medium"
  /\ result.out[2].category = "Housing" /\ result.out[2].priority = "low"
  /\ Encounter("Housing") < Encounter("Pets")

\* two suggestions of priority medium, returned in the order of the loop
C21_WitnessEqualPriority ==
  /\ Suggested
  /\ Len(result.out) = 2
  /\ result.out[1].category = "Housing" /\ result.out[1].type = "increase"
  /\ result.out[2].category = "Pets" /\ result.out[2].type = "add"
  /\ result.out[1].priority = result.out[2].priority

\* the expenses of a category, of any date
ExpensesIn(category) ==
  SelectSeq(transactions,
            LAMBDA t : t.type = "expense" /\ t.category = category)

\* the conversion of the transaction's amount to the currency fails
ConversionFails(t, target_currency) ==
  /\ t.currency # target_currency
  /\ convert_currency(t.amount, t.currency, target_currency) = <<>>

\* C22: an expense whose conversion to the target currency fails is still
\* counted by get_expense_breakdown, at its original amount: a category
\* whose foreign expenses all fail to convert is present in the breakdown
\* with the sum of the original amounts of all its expenses.
C22_FailedConversionCounted ==
  result.call = "get_expense_breakdown" =>
    \A category \in BreakdownNames :
      LET spent == ExpensesIn(category)
      IN  (/\ spent # <<>>
           /\ \A i \in 1..Len(spent) :
                spent[i].currency # result.period =>
                  ConversionFails(spent[i], result.period))
            => /\ Has(result.out, category)
               /\ Get(result.out, category, 0) = SumValues(spent)

\* the breakdown of a history with one expense in the target currency and
\* one, in the same category, whose conversion fails: both are counted
C22_Witness ==
  /\ result.call = "get_expense_breakdown"
  /\ Len(ExpensesIn("Housing")) = 2
  /\ ExpensesIn("Housing")[1].currency = result.period
  /\ ConversionFails(ExpensesIn("Housing")[2], result.period)
  /\ Get(result.out, "Housing", 0)
       = ExpensesIn("Housing")[1].amount + ExpensesIn("Housing")[2].amount

\* the queries of the analysis of a budget
Queries ==
  {"track_spending_vs_budget", "get_budget_status",
   "suggest_budget_adjustments", "get_budget_health_score"}

\* the values a query can return for the budget, the history and the day of
\* the current state
Outcomes(call, period) ==
  LET comparisons == TrackSpending(Budget, transactions, period, today)
  IN  IF call = "track_spending_vs_budget" THEN comparisons
      ELSE IF call = "get_budget_status"
      THEN {get_budget_status(Budget, c) : c \in comparisons}
      ELSE IF call = "suggest_budget_adjustments"
      THEN UNION {Suggestions(c) : c \in comparisons}
      ELSE UNION {{HealthScore(get_budget_status(Budget, c), x) :
                     x \in Suggestions(c)} : c \in comparisons}

\* C23: track_spending_vs_budget, get_budget_status,
\* suggest_budget_adjustments and get_budget_health_score are pure queries:
\* a call leaves the budget's categories, monthly_income, currency and dates
\* (and the history) as they are; what it returns is determined by the
\* budget, the history and the current date at the time of the call, so a
\* call repeated on the same state returns an equal value and a call after
\* a mutation reflects the mutated budget.
C23_PureQueries ==
  [][op'.name \in Queries =>
       /\ UNCHANGED <<created, budgetVars, today, transactions>>
       /\ result'.call = op'.name
       /\ LET outcomes == Outcomes(result'.call, result'.period)
          IN  /\ result'.out \in outcomes
              /\ (/\ result.call = result'.call
                  /\ result.period = result'.period
                  /\ Cardinality(outcomes) = 1)
                   => result'.out = result.out]_vars

\* a comparison returned after update_budget_income rescaled the budget:
\* the entry of Housing shows the rescaled allocation
C23_Witness ==
  /\ Tracked
  /\ monthly_income = Cent
  /\ Has(categories, "Housing")
  /\ Get(categories, "Housing", 0) = Cent
  /\ EntryOf(result.out, "Housing") # <<>>
  /\ EntryOf(result.out, "Housing").budgeted = Cent

\* the budget is the one a template call has just returned
FromTemplate(template) ==
  /\ op.name = "create_budget_from_template"
  /\ op.category = template
  /\ op.ret

\* the allocations of the named categories, added up
TotalOf(names) ==
  SumValues(SelectSeq(categories, LAMBDA c : c.name \in names))

\* the total is the share pct of the income, each of the n amounts in it
\* being rounded to the cent
IsShare(total, pct, n) ==
  2 * Abs(100 * total - pct * monthly_income) <= 100 * n * Cent

NeedsCategories ==
  {"Housing", "Food & Dining", "Transportation", "Utilities", "Healthcare"}
WantsCategories == {"Entertainment", "Shopping", "Other"}

\* C24: create_budget_from_template(income, '50/30/20') returns a budget
\* that holds all nine categories of the template, the needs categories
\* totalling 50% of the income, the wants categories 30% and Savings 20%.
C24_Template503020 ==
  FromTemplate("50/30/20") =>
    /\ KeysOf(categories) = NeedsCategories \cup WantsCategories \cup {"Savings"}
    /\ IsShare(TotalOf(NeedsCategories), 50, 5)
    /\ IsShare(TotalOf(WantsCategories), 30, 3)
    /\ IsShare(TotalOf({"Savings"}), 20, 1)

\* C25: create_budget_from_template(income, 'zero_based') returns a budget
\* in which every category of RECOMMENDED_BUDGET_PERCENTAGES is present
\* with the allocation income * percentage / 100.
C25_TemplateZeroBased ==
  FromTemplate("zero_based") =>
    \A i \in 1..Len(RECOMMENDED_BUDGET_PERCENTAGES) :
      LET r == RECOMMENDED_BUDGET_PERCENTAGES[i]
      IN  /\ Has(categories, r.name)
          /\ IsNearestCent(Get(categories, r.name, 0), monthly_income * r.pct, 100)

\* C26: in every state of a budget get_remaining_budget() = monthly_income
\* - get_total_budget() and get_budget_utilization() = get_total_budget()
\* / monthly_income * 100 to one decimal, 0 when monthly_income is 0; in
\* every state reached through the mutating operations the remaining budget
\* is >= 0 and the utilization <= 100.
C26_RemainingAndUtilization ==
  created =>
    LET total == SumValues(categories)
        remaining == get_remaining_budget(monthly_income, categories)
    IN  /\ remaining = monthly_income - total
        /\ remaining >= 0
        /\ \A utilization \in get_budget_utilization(monthly_income, categories) :
             /\ IF monthly_income = 0 THEN utilization = 0
                ELSE IsNearestTenth(utilization, 1000 * total, monthly_income)
             /\ utilization <= 1000

\* C27: the suggestions respect the income: for every 'increase' or 'add'
\* suggestion, the budget with that category's allocation replaced by
\* suggested_amount still totals no more than monthly_income.
C27_SuggestionsWithinIncome ==
  Suggested =>
    \A i \in 1..Len(result.out) :
      LET x == result.out[i]
      IN  x.type \in {"increase", "add"} =>
            SumValues(categories) - Get(categories, x.category, 0)
              + x.suggested_amount <= monthly_income

\* C28: every 'decrease' suggestion has suggested_amount strictly below
\* current_amount and at or above the category's actual spending; every
\* 'increase' suggestion has suggested_amount strictly above both
\* current_amount and the actual spending.
C28_SuggestedAmounts ==
  Suggested =>
    \A i \in 1..Len(result.out) :
      LET x == result.out[i]
          actual == ExpenseTotal(x.category, "month")
      IN  /\ x.type = "decrease" =>
               /\ x.suggested_amount < x.current_amount
               /\ x.suggested_amount >= actual
          /\ x.type = "increase" =>
               /\ x.suggested_amount > x.current_amount
               /\ x.suggested_amount > actual

\* the number of times a category is listed
Times(list, category) == Cardinality({i \in 1..Len(list) : list[i] = category})

\* C29: in the result of get_budget_status every entry of the comparison
\* but '_summary' is listed exactly once, in over_budget_categories,
\* under_budget_categories or unbudgeted_categories after its status, an
\* 'exact' entry in none; '_summary' is in no list; budget_health is
\* 'healthy' exactly when total_spent <= total_budgeted, else 'over_budget'.
C29_BudgetStatus ==
  result.call = "get_budget_status" =>
    \E comparison \in MonthComparisons :
      LET over == result.out.over_budget_categories
          under == result.out.under_budget_categories
          unbudgeted == result.out.unbudgeted_categories
          One(list, category, listed) ==
            Times(list, category) = (IF listed THEN 1 ELSE 0)
      IN  /\ \A k \in 1..Len(comparison) :
               LET category == comparison[k].name
                   e == EntryOf(comparison, category)
                   status == IF e = <<>> THEN "_summary" ELSE e.status
               IN  /\ One(over, category, status = "over")
                   /\ One(under, category, status = "under")
                   /\ One(unbudgeted, category, status = "unbudgeted")
          /\ Times(over, "_summary") + Times(under, "_summary")
               + Times(unbudgeted, "_summary") = 0
          /\ Len(over) + Len(under) + Len(unbudgeted)
               = CountStatus(comparison, "over") + CountStatus(comparison, "under")
                   + CountStatus(comparison, "unbudgeted")
          /\ result.out.total_spent = SumValues(ExpensesOf("month"))
          /\ result.out.total_budgeted = SumValues(categories)
          /\ result.out.budget_health
               = (IF result.out.total_spent <= result.out.total_budgeted
                  THEN "healthy" ELSE "over_budget")

\* the status of a budget with a category over its allocation and spending
\* in a category without budget, the spending exceeding the budget
C29_Witness ==
  /\ result.call = "get_budget_status"
  /\ result.out.over_budget_categories = <<"Housing">>
  /\ result.out.unbudgeted_categories = <<"Pets">>
  /\ result.out.budget_health = "over_budget"

\* the status of a budget that holds an entry of status 'exact' (nothing
\* budgeted, nothing spent), which no list names, and is 'healthy'
C29_WitnessExact ==
  /\ result.call = "get_budget_status"
  /\ Has(categories, "Housing")
  /\ Get(categories, "Housing", 0) = 0
  /\ ExpenseTotal("Housing", "month") = 0
  /\ Times(result.out.under_budget_categories, "Housing") = 0
  /\ result.out.budget_health = "healthy"

\* the call just made is a mutation of the budget that returned True
Mutated ==
  /\ op'.name \in {"add_category", "remove_category", "update_budget_income"}
  /\ op'.ret

\* C30: every successful mutation (add_category, remove_category or
\* update_budget_income returning True, on either branch) sets last_updated
\* to the current date, and no mutation changes created_date.
C30_LastUpdatedStamped ==
  [][/\ Mutated => last_updated' = today
     /\ op'.name \in {"add_category", "remove_category", "update_budget_income"}
          => created_date' = created_date]_vars

====
